---- MODULE Spec2Model ----
(***************************************************************************)
(* A model of torch/fx/experimental/graph_gradual_typechecker.py: the      *)
(* gradual type checker for FX graphs.  The state is a graph (a sequence   *)
(* of nodes, each with a mutable type field), the modules its call_module  *)
(* nodes name, and the position of GraphTypeChecker.type_check in its loop *)
(* over the nodes.  Every inference rule is an operator from the type map  *)
(* before the rule to the outcome (raised or not, and the type map after). *)
(***************************************************************************)
EXTENDS Integers, Sequences, FiniteSets, TLC

VARIABLES nodes, modules, type, pc, status, err, visited, pre, type0

vars == <<nodes, modules, type, pc, status, err, visited, pre, type0>>

(***************************************************************************)
(* Python values.  A value is a record: the Dyn singleton, an integer, a   *)
(* TensorType with its __args__, None, or the class int used as a type.    *)
(***************************************************************************)
Dyn == [k |-> "Dyn", v |-> 0, a |-> <<>>]

None == [k |-> "None", v |-> 0, a |-> <<>>]

IntClass == [k |-> "class_int", v |-> 0, a |-> <<>>]

IntV(n) == [k |-> "int", v |-> n, a |-> <<>>]

TensorType(args) == [k |-> "TensorType", v |-> 0, a |-> args]

IsTensorType(t) == t.k = "TensorType"

IsInt(t) == t.k = "int"

(* the wildcard of a reshape target list *)
Wildcard == -1

(***************************************************************************)
(* torch.fx.tensor_type: is_consistent and is_more_precise.                *)
(***************************************************************************)
(* dynamic is consistent with anything; two tensor types are consistent   *)
(* iff they have the same rank and are consistent dimension by dimension; *)
(* two integers are consistent iff equal.                                  *)
is_consistent(t1, t2) ==
    LET dim(x, y) == x = y \/ x = Dyn \/ y = Dyn
    IN  IF t1 = t2 THEN TRUE
        ELSE IF t1 = Dyn \/ t2 = Dyn THEN TRUE
        ELSE IF IsTensorType(t1) /\ IsTensorType(t2)
             THEN /\ Len(t1.a) = Len(t2.a)
                  /\ \A i \in 1..Len(t1.a) : dim(t1.a[i], t2.a[i])
        ELSE FALSE

(* dynamic is never more precise than anything, dynamic itself included;  *)
(* anything else is more precise than dynamic; a dimension is more        *)
(* precise than another when the other is dynamic and it is a known       *)
(* integer, or both are the same integer; tensor types compare dimension  *)
(* by dimension at equal rank.                                             *)
is_more_precise(t1, t2) ==
    LET dim(x, y) == /\ x # Dyn
                     /\ (y = Dyn \/ x = y)
    IN  IF t1 = Dyn THEN FALSE
        ELSE IF t2 = Dyn THEN TRUE
        ELSE IF IsTensorType(t1) /\ IsTensorType(t2)
             THEN /\ Len(t1.a) = Len(t2.a)
                  /\ \A i \in 1..Len(t1.a) : dim(t1.a[i], t2.a[i])
        ELSE t1 = t2

(***************************************************************************)
(* Results of the helper functions: a value, or a raised exception.        *)
(***************************************************************************)
Val(x) == [ok |-> TRUE, val |-> x, err |-> ""]

Exc(e) == [ok |-> FALSE, val |-> None, err |-> e]

(* Outcome of a rule: whether it raised, and the type map it leaves.       *)
Ok(ty) == [raised |-> FALSE, err |-> "", type |-> ty]

Raise(e, ty) == [raised |-> TRUE, err |-> e, type |-> ty]

(***************************************************************************)
(* expand_to_tensor_dim                                                    *)
(***************************************************************************)
expand_to_tensor_dim(t, n) ==
    IF t = Dyn THEN Val(TensorType([i \in 1..n |-> Dyn]))
    ELSE IF IsTensorType(t)
         THEN IF Len(t.a) # n THEN Exc("TypeError") ELSE Val(t)
    ELSE Exc("TypeError")

(***************************************************************************)
(* broadcast_types                                                         *)
(***************************************************************************)
(* a plausible slip: the shorter-or-equal operand is padded *)
insert_leading_or_equal(own, other) ==
    IF Len(other) >= Len(own) THEN <<other[1]>> \o own ELSE own

(* new_t.insert(0, other[0]) on the operand of lower rank *)
insert_leading(own, other) ==
    IF Len(other) > Len(own) THEN <<other[1]>> \o own ELSE own

broadcast_types(t1, t2) ==
    IF t1 = Dyn \/ t2 = Dyn THEN [ok |-> TRUE, t1 |-> t1, t2 |-> t2, err |-> ""]
    ELSE IF IsTensorType(t1) /\ IsTensorType(t2)
    THEN LET s1 == Len(t1.a)
             s2 == Len(t2.a)
             diff == IF s1 > s2 THEN s1 - s2 ELSE s2 - s1
         IN  IF diff > 1 \/ s1 = 0 \/ s2 = 0
             THEN [ok |-> FALSE, t1 |-> t1, t2 |-> t2, err |-> "TypeError"]
             ELSE
             LET ins1 == insert_leading(t1.a, t2.a)
                 ins2 == insert_leading(t2.a, t1.a)
                 new_t1 == [i \in 1..Len(ins1) |->
                              IF ins1[i] = IntV(1) THEN ins2[i] ELSE ins1[i]]
                 new_t2 == [i \in 1..Len(ins2) |->
                              IF ins1[i] = IntV(1) THEN ins2[i]
                              ELSE IF ins2[i] = IntV(1) THEN ins1[i]
                              ELSE ins2[i]]
             IN  IF new_t1 # t1.a /\ new_t2 # t2.a
                 THEN [ok |-> FALSE, t1 |-> t1, t2 |-> t2, err |-> "TypeError"]
                 ELSE [ok |-> TRUE, t1 |-> TensorType(new_t1),
                       t2 |-> TensorType(new_t2), err |-> ""]
    ELSE [ok |-> FALSE, t1 |-> t1, t2 |-> t2, err |-> "TypeError"]

(***************************************************************************)
(* Python arithmetic: reduce(lambda x, y: x * y, ...) and the % operator,  *)
(* whose result has the sign of the divisor.                               *)
(***************************************************************************)
RECURSIVE product(_)
product(s) == IF Len(s) = 1 THEN s[1] ELSE s[1] * product(Tail(s))

PyMod(x, y) == IF y > 0 THEN x % y ELSE 0 - ((0 - x) % (0 - y))

(* i // j for j > 0: floor division *)
FloorDiv(i, j) == i \div j

(***************************************************************************)
(* add_inference_rule (torch.add, operator.add)                            *)
(***************************************************************************)
add_choice(new_t1, new_t2) ==
    IF is_more_precise(new_t1, new_t2) THEN new_t2 ELSE new_t1

(* a plausible slip: the operands are assigned after the consistency check *)
add_inference_rule_assigning_late(ty, n) ==
    IF Len(nodes[n].args) < 2 THEN Raise("AssertionError", ty)
    ELSE
    LET a0 == nodes[n].args[1]
        a1 == nodes[n].args[2]
        t1 == ty[a0]
        t2 == ty[a1]
    IN  IF t1 = IntClass /\ IsTensorType(t2) THEN Ok([ty EXCEPT ![n] = t2])
        ELSE IF t2 = IntClass /\ IsTensorType(t1) THEN Ok([ty EXCEPT ![n] = t1])
        ELSE
        LET b == broadcast_types(t1, t2)
        IN  IF ~b.ok THEN Raise(b.err, ty)
            ELSE
            LET ty1 == [[ty EXCEPT ![a0] = b.t1] EXCEPT ![a1] = b.t2]
            IN  IF is_consistent(b.t1, b.t2)
                THEN Ok([ty1 EXCEPT ![n] = add_choice(b.t1, b.t2)])
                ELSE Raise("TypeError", ty)

add_inference_rule(ty, n) ==
    IF Len(nodes[n].args) < 2 THEN Raise("AssertionError", ty)
    ELSE
    LET a0 == nodes[n].args[1]
        a1 == nodes[n].args[2]
        t1 == ty[a0]
        t2 == ty[a1]
    IN  IF t1 = IntClass /\ IsTensorType(t2) THEN Ok([ty EXCEPT ![n] = t2])
        ELSE IF t2 = IntClass /\ IsTensorType(t1) THEN Ok([ty EXCEPT ![n] = t1])
        ELSE
        LET b == broadcast_types(t1, t2)
        IN  IF ~b.ok THEN Raise(b.err, ty)
            ELSE
            LET ty1 == [[ty EXCEPT ![a0] = b.t1] EXCEPT ![a1] = b.t2]
            IN  IF is_consistent(b.t1, b.t2)
                THEN Ok([ty1 EXCEPT ![n] = add_choice(b.t1, b.t2)])
                ELSE Raise("TypeError", ty1)

(***************************************************************************)
(* transpose_inference_rule (torch.transpose)                              *)
(***************************************************************************)
transpose_inference_rule(ty, n) ==
    IF Len(nodes[n].args) < 1 \/ Len(nodes[n].lits) < 2
    THEN Raise("AssertionError", ty)
    ELSE
    LET t == ty[nodes[n].args[1]]
        dim1 == nodes[n].lits[1]
        dim2 == nodes[n].lits[2]
    IN  IF t = Dyn THEN Ok([ty EXCEPT ![n] = Dyn])
        ELSE IF IsTensorType(t)
        THEN IF 0 <= dim1 /\ dim1 < Len(t.a) /\ 0 <= dim2 /\ dim2 < Len(t.a)
             THEN LET new_type == [i \in 1..Len(t.a) |->
                                     IF i = dim1 + 1 THEN t.a[dim2 + 1]
                                     ELSE IF i = dim2 + 1 THEN t.a[dim1 + 1]
                                     ELSE t.a[i]]
                  IN  Ok([ty EXCEPT ![n] = TensorType(new_type)])
             ELSE Raise("TypeError", ty)
        ELSE Raise("TypeError", ty)

(***************************************************************************)
(* reshape_inference_rule (torch.reshape)                                  *)
(***************************************************************************)
reshape_target_type(t2) ==
    TensorType([i \in 1..Len(t2) |-> IF t2[i] = Wildcard THEN Dyn ELSE IntV(t2[i])])

(* p1 % p2 == 0 or p2 % p1 == 0, with Python's ZeroDivisionError *)
reshape_divisible(p1, p2) ==
    IF p2 = 0 THEN Exc("ZeroDivisionError")
    ELSE IF PyMod(p1, p2) = 0 THEN Val(IntV(1))
    ELSE IF p1 = 0 THEN Exc("ZeroDivisionError")
    ELSE IF PyMod(p2, p1) = 0 THEN Val(IntV(1))
    ELSE Val(IntV(0))

reshape_inference_rule(ty, n) ==
    IF Len(nodes[n].args) < 1 THEN Raise("AssertionError", ty)
    ELSE
    LET t1 == ty[nodes[n].args[1]]
        t2 == nodes[n].lits
        t2_type == reshape_target_type(t2)
        has_dyn == IsTensorType(t1) /\ \E i \in 1..Len(t1.a) : t1.a[i] = Dyn
        has_wild == \E i \in 1..Len(t2) : t2[i] = Wildcard
    IN  IF t1 = Dyn THEN Ok([ty EXCEPT ![n] = t2_type])
        ELSE IF has_dyn \/ has_wild
        THEN IF ~IsTensorType(t1) THEN Raise("AssertionError", ty)
             ELSE IF \E i \in 1..Len(t1.a) : t1.a[i] # Dyn /\ ~IsInt(t1.a[i])
             THEN Raise("TypeError", ty)
             ELSE
             LET a == [i \in 1..Len(t1.a) |->
                         IF t1.a[i] # Dyn THEN t1.a[i].v ELSE 1]
                 p1 == product(a)
                 p2 == product(t2)
                 d == reshape_divisible(p1, p2)
             IN  IF ~d.ok THEN Raise(d.err, ty)
                 ELSE IF d.val = IntV(1) THEN Ok([ty EXCEPT ![n] = t2_type])
                 ELSE Raise("TypeError", ty)
        ELSE IF IsTensorType(t1)
        THEN IF \E i \in 1..Len(t1.a) : ~IsInt(t1.a[i])
             THEN Raise("TypeError", ty)
             ELSE
             LET p1 == product([i \in 1..Len(t1.a) |-> t1.a[i].v])
                 p2 == product(t2)
             IN  IF p1 = p2 THEN Ok([ty EXCEPT ![n] = t2_type])
                 ELSE Raise("TypeError", ty)
        ELSE Raise("TypeError", ty)

(***************************************************************************)
(* bn2d_inference_rule (BatchNorm2d)                                       *)
(***************************************************************************)
bn2d_inference_rule(ty, n, module_instance) ==
    IF Len(nodes[n].args) < 1 THEN Raise("AssertionError", ty)
    ELSE
    LET a0 == nodes[n].args[1]
        e0 == expand_to_tensor_dim(ty[a0], 4)
    IN  IF ~e0.ok THEN Raise(e0.err, ty)
        ELSE
        LET ty1 == [ty EXCEPT ![a0] = e0.val]
            arg_type == e0.val
            e1 == expand_to_tensor_dim(ty1[n], 4)
        IN  IF ~e1.ok THEN Raise(e1.err, ty1)
            ELSE
            LET ty2 == [ty1 EXCEPT ![n] = e1.val]
                nf == IntV(module_instance.num_features)
            IN  IF /\ is_consistent(arg_type.a[2], nf)
                   /\ is_consistent(ty2[n].a[2], nf)
                   /\ is_consistent(arg_type, ty2[n])
                THEN IF is_more_precise(arg_type, ty2[n])
                     THEN Ok([ty2 EXCEPT ![n] = arg_type])
                     ELSE Ok(ty2)
                ELSE Raise("TypeError", ty2)

(***************************************************************************)
(* calculate: the output size of one spatial axis.  A module attribute     *)
(* given as an int is the one-element sequence, a pair has two elements.   *)
(***************************************************************************)
as_pair(x) == IF Len(x) = 1 THEN <<x[1], x[1]>> ELSE x

(* a plausible change: the stride of the axis itself *)
calculate_stride_of_axis(stride, index) == stride[index + 1]

(* stride[0], whatever the axis *)
calculate_stride(stride, index) == stride[1]

calculate(d_in, module_instance, index) ==
    LET padding == as_pair(module_instance.padding)
        kernel_size == as_pair(module_instance.kernel_size)
        stride == as_pair(module_instance.stride)
        dilation == as_pair(module_instance.dilation)
    IN  IF d_in = Dyn THEN Dyn
        ELSE IF IsInt(d_in)
        THEN LET m == d_in.v + 2 * padding[index + 1]
                      - dilation[index + 1] * (kernel_size[index + 1] - 1) - 1
             IN  IntV(FloorDiv(m, calculate_stride(stride, index)) + 1)
        ELSE None

(***************************************************************************)
(* get_greatest_upper_bound                                                *)
(***************************************************************************)
get_greatest_upper_bound(type1, type2) ==
    IF type1 = Dyn THEN Val(type2)
    ELSE IF type2 = Dyn THEN Val(type1)
    ELSE IF IsTensorType(type1) /\ IsTensorType(type2)
    THEN IF Len(type1.a) # Len(type2.a) THEN Exc("AssertionError")
         ELSE Val(TensorType([i \in 1..Len(type1.a) |->
                    IF is_more_precise(type1.a[i], type2.a[i])
                    THEN type1.a[i] ELSE type2.a[i]]))
    ELSE Val(None)

(***************************************************************************)
(* conv2d_inference_rule (Conv2d)                                          *)
(***************************************************************************)
conv2d_inference_rule(ty, n, module_instance) ==
    IF Len(nodes[n].args) < 1 THEN Raise("AssertionError", ty)
    ELSE
    LET a0 == nodes[n].args[1]
        e0 == expand_to_tensor_dim(ty[a0], 4)
    IN  IF ~e0.ok THEN Raise(e0.err, ty)
        ELSE
        LET ty1 == [ty EXCEPT ![a0] = e0.val]
            arg_type == e0.val
            e1 == expand_to_tensor_dim(ty1[n], 4)
        IN  IF ~e1.ok THEN Raise(e1.err, ty1)
            ELSE
            LET curr_node_type == e1.val
            IN  IF is_consistent(arg_type.a[2], IntV(module_instance.in_channels))
                THEN LET w_in == arg_type.a[4]
                         h_in == arg_type.a[3]
                         h_out == calculate(h_in, module_instance, 0)
                         w_out == calculate(w_in, module_instance, 1)
                         new_type == TensorType(<<arg_type.a[1],
                                         IntV(module_instance.out_channels),
                                         h_out, w_out>>)
                     IN  IF ~is_consistent(new_type, curr_node_type)
                         THEN Raise("TypeError", ty1)
                         ELSE LET gub == get_greatest_upper_bound(new_type,
                                                                  curr_node_type)
                              IN  IF ~gub.ok THEN Raise(gub.err, ty1)
                                  ELSE Ok([ty1 EXCEPT ![n] = gub.val])
                ELSE Raise("TypeError", ty1)

(***************************************************************************)
(* relu_inference_rule (torch.nn.ReLU)                                     *)
(***************************************************************************)
relu_inference_rule(ty, n, module_instance) ==
    IF Len(nodes[n].args) < 1 THEN Raise("AssertionError", ty)
    ELSE
    LET arg_type == ty[nodes[n].args[1]]
    IN  IF is_consistent(arg_type, ty[n])
        THEN IF is_more_precise(arg_type, ty[n])
             THEN Ok([ty EXCEPT ![n] = arg_type])
             ELSE Ok(ty)
        ELSE Raise("TypeError", ty)

(***************************************************************************)
(* maxpool2d_check and maxpool2d_inference_rule (torch.nn.MaxPool2d)       *)
(***************************************************************************)
maxpool2d_check(typ, module_instance) ==
    LET r == Len(typ.a)
    IN  IF r = 4 \/ r = 3
        THEN LET w_in == typ.a[r]
                 h_in == typ.a[r - 1]
                 h_out == calculate(h_in, module_instance, 0)
                 w_out == calculate(w_in, module_instance, 1)
             IN  Val(TensorType([i \in 1..r |->
                        IF i = r THEN w_out
                        ELSE IF i = r - 1 THEN h_out ELSE typ.a[i]]))
        ELSE Exc("TypeError")

maxpool2d_inference_rule(ty, n, module_instance) ==
    IF Len(nodes[n].args) < 1 THEN Raise("AssertionError", ty)
    ELSE
    LET arg == ty[nodes[n].args[1]]
    IN  IF arg = Dyn /\ ty[n] = Dyn THEN Ok(ty)
        ELSE IF arg = Dyn /\ IsTensorType(ty[n])
        THEN LET c == maxpool2d_check(ty[n], module_instance)
             IN  IF ~c.ok THEN Raise(c.err, ty) ELSE Ok([ty EXCEPT ![n] = c.val])
        ELSE IF ty[n] = Dyn /\ IsTensorType(arg)
        THEN LET c == maxpool2d_check(arg, module_instance)
             IN  IF ~c.ok THEN Raise(c.err, ty) ELSE Ok([ty EXCEPT ![n] = c.val])
        ELSE IF IsTensorType(arg) /\ IsTensorType(ty[n])
        THEN LET new_arg == maxpool2d_check(arg, module_instance)
                 new_node_type == maxpool2d_check(ty[n], module_instance)
             IN  IF ~new_arg.ok THEN Raise(new_arg.err, ty)
                 ELSE IF ~new_node_type.ok THEN Raise(new_node_type.err, ty)
                 ELSE IF is_more_precise(new_arg.val, new_node_type.val)
                 THEN Ok([ty EXCEPT ![n] = new_arg.val])
                 ELSE Ok([ty EXCEPT ![n] = new_node_type.val])
        ELSE Raise("TypeError", ty)

(***************************************************************************)
(* linear_check and linear_inference_rule (torch.nn.Linear)                *)
(***************************************************************************)
linear_check(tensor_type, op_type) ==
    LET r == Len(tensor_type.a)
    IN  IF r >= 2
        THEN IF is_consistent(IntV(op_type.in_features), tensor_type.a[r])
             THEN Val(TensorType([i \in 1..r |->
                        IF i = r THEN IntV(op_type.out_features)
                        ELSE tensor_type.a[i]]))
             ELSE Exc("TypeError")
        ELSE Exc("TypeError")

linear_inference_rule(ty, n, op_type) ==
    IF Len(nodes[n].args) < 1 THEN Raise("AssertionError", ty)
    ELSE
    LET arg == ty[nodes[n].args[1]]
    IN  IF IsTensorType(arg) /\ IsTensorType(ty[n])
        THEN IF is_consistent(arg, ty[n])
             THEN LET from_arg == linear_check(arg, op_type)
                      from_node == linear_check(ty[n], op_type)
                  IN  IF ~from_arg.ok THEN Raise(from_arg.err, ty)
                      ELSE IF ~from_node.ok THEN Raise(from_node.err, ty)
                      ELSE IF is_more_precise(from_arg.val, from_node.val)
                      THEN Ok([ty EXCEPT ![n] = from_arg.val])
                      ELSE Ok([ty EXCEPT ![n] = from_node.val])
             ELSE Raise("TypeError", ty)
        ELSE IF IsTensorType(arg) /\ ty[n] = Dyn
        THEN LET c == linear_check(arg, op_type)
             IN  IF ~c.ok THEN Raise(c.err, ty) ELSE Ok([ty EXCEPT ![n] = c.val])
        ELSE IF IsTensorType(ty[n]) /\ arg = Dyn
        THEN LET c == linear_check(ty[n], op_type)
             IN  IF ~c.ok THEN Raise(c.err, ty) ELSE Ok([ty EXCEPT ![n] = c.val])
        ELSE IF arg = Dyn /\ ty[n] = Dyn THEN Ok(ty)
        ELSE Raise("TypeError", ty)

(***************************************************************************)
(* adaptiveavgpool2d_check and adaptiveavgpool2d_inference_rule            *)
(* (torch.nn.AdaptiveAvgPool2d).  output_size given as an int is the       *)
(* one-element sequence; a tuple has two elements, each an int or None.    *)
(***************************************************************************)
normalize_output_size(output_size) ==
    IF Len(output_size) = 1 THEN <<output_size[1], output_size[1]>>
    ELSE LET s0 == IF output_size[1] = None
                   THEN <<output_size[2], output_size[2]>>
                   ELSE output_size
         IN  s0

adaptiveavgpool2d_check(tensor_type, op_type) ==
    LET output_size == normalize_output_size(op_type.output_size)
        r == Len(tensor_type.a)
    IN  IF r = 4 \/ r = 3
        THEN Val(TensorType([i \in 1..r |->
                   IF i = r THEN output_size[2]
                   ELSE IF i = r - 1 THEN output_size[1]
                   ELSE tensor_type.a[i]]))
        ELSE Exc("TypeError")

adaptiveavgpool2d_inference_rule(ty, n, op_type) ==
    IF Len(nodes[n].args) < 1 THEN Raise("AssertionError", ty)
    ELSE
    LET arg == ty[nodes[n].args[1]]
    IN  IF IsTensorType(arg) /\ IsTensorType(ty[n])
        THEN IF is_consistent(arg, ty[n])
             THEN LET from_arg == adaptiveavgpool2d_check(arg, op_type)
                      from_node == adaptiveavgpool2d_check(ty[n], op_type)
                  IN  IF ~from_arg.ok THEN Raise(from_arg.err, ty)
                      ELSE IF ~from_node.ok THEN Raise(from_node.err, ty)
                      ELSE IF is_more_precise(from_arg.val, from_node.val)
                      THEN Ok([ty EXCEPT ![n] = from_arg.val])
                      ELSE Ok([ty EXCEPT ![n] = from_node.val])
             ELSE Raise("TypeError", ty)
        ELSE IF arg = Dyn /\ IsTensorType(ty[n])
        THEN LET c == adaptiveavgpool2d_check(ty[n], op_type)
             IN  IF ~c.ok THEN Raise(c.err, ty) ELSE Ok([ty EXCEPT ![n] = c.val])
        ELSE IF IsTensorType(arg) /\ ty[n] = Dyn
        THEN LET c == adaptiveavgpool2d_check(arg, op_type)
             IN  IF ~c.ok THEN Raise(c.err, ty) ELSE Ok([ty EXCEPT ![n] = c.val])
        ELSE IF ty[n] = Dyn /\ arg = Dyn THEN Ok(ty)
        ELSE Raise("TypeError", ty)

(***************************************************************************)
(* _INFERENCE_RULES: the targets and module classes with a registered rule *)
(***************************************************************************)
INFERENCE_RULES ==
    {"torch.add", "operator.add", "torch.transpose", "torch.reshape",
     "BatchNorm2d", "Conv2d", "ReLU", "MaxPool2d", "Linear", "AdaptiveAvgPool2d"}

(***************************************************************************)
(* GraphTypeChecker.type_check_node: an unset type becomes Dyn, then the   *)
(* node is dispatched on its operator kind and its target.                 *)
(***************************************************************************)
(* a plausible slip: an unset type is left unset *)
init_type_missing(ty, n) == ty

init_type(ty, n) == IF ty[n] = None THEN [ty EXCEPT ![n] = Dyn] ELSE ty

placeholder_node(ty, n) == Ok(ty)

(* a plausible slip: a node without a rule is passed over *)
unregistered_skipped(ty, n) == Ok(ty)

unregistered(ty, n) == Raise("RuntimeError", ty)

output_node(ty, n) ==
    IF Len(nodes[n].args) < 1 THEN Raise("AssertionError", ty)
    ELSE Ok([ty EXCEPT ![n] = ty[nodes[n].args[1]]])

not_implemented(ty, n) == Raise("NotImplementedError", ty)

module_instance_of(n) == modules[nodes[n].target]

(***************************************************************************)
(* GraphTypeChecker.type_check: the loop over graph.nodes.  One step is    *)
(* the visit of the node at pc; an exception leaves the loop and the call. *)
(***************************************************************************)
(* a plausible slip: the error is noted and the loop goes on *)
loop_next_swallowing(r, i) == [pc |-> i + 1, status |-> "running", err |-> r.err]

loop_next(r, i) ==
    IF r.raised THEN [pc |-> i, status |-> "raised", err |-> r.err]
    ELSE [pc |-> i + 1, status |-> "running", err |-> ""]

(* the visit of node pc ends with outcome r *)
Visited(r) ==
    /\ type' = r.type
    /\ pc' = loop_next(r, pc).pc
    /\ status' = loop_next(r, pc).status
    /\ err' = loop_next(r, pc).err
    /\ visited' = Append(visited, pc)
    /\ pre' = type
    /\ UNCHANGED <<nodes, modules, type0>>

AtNode == status = "running" /\ pc <= Len(nodes)

AtFunction(targets) ==
    /\ AtNode
    /\ nodes[pc].op = "call_function"
    /\ nodes[pc].target \in INFERENCE_RULES
    /\ nodes[pc].target \in targets

AtModule(cls) ==
    /\ AtNode
    /\ nodes[pc].op = "call_module"
    /\ module_instance_of(pc).cls \in INFERENCE_RULES
    /\ module_instance_of(pc).cls = cls

VisitPlaceholder ==
    /\ AtNode
    /\ nodes[pc].op = "placeholder"
    /\ Visited(placeholder_node(init_type(type, pc), pc))

VisitAdd ==
    /\ AtFunction({"torch.add", "operator.add"})
    /\ Visited(add_inference_rule(init_type(type, pc), pc))

VisitTranspose ==
    /\ AtFunction({"torch.transpose"})
    /\ Visited(transpose_inference_rule(init_type(type, pc), pc))

VisitReshape ==
    /\ AtFunction({"torch.reshape"})
    /\ Visited(reshape_inference_rule(init_type(type, pc), pc))

VisitBn2d ==
    /\ AtModule("BatchNorm2d")
    /\ Visited(bn2d_inference_rule(init_type(type, pc), pc, module_instance_of(pc)))

VisitConv2d ==
    /\ AtModule("Conv2d")
    /\ Visited(conv2d_inference_rule(init_type(type, pc), pc, module_instance_of(pc)))

VisitRelu ==
    /\ AtModule("ReLU")
    /\ Visited(relu_inference_rule(init_type(type, pc), pc, module_instance_of(pc)))

VisitMaxpool2d ==
    /\ AtModule("MaxPool2d")
    /\ Visited(maxpool2d_inference_rule(init_type(type, pc), pc, module_instance_of(pc)))

VisitLinear ==
    /\ AtModule("Linear")
    /\ Visited(linear_inference_rule(init_type(type, pc), pc, module_instance_of(pc)))

VisitAdaptiveAvgPool2d ==
    /\ AtModule("AdaptiveAvgPool2d")
    /\ Visited(adaptiveavgpool2d_inference_rule(init_type(type, pc), pc,
                                                module_instance_of(pc)))

VisitUnregisteredFunction ==
    /\ AtNode
    /\ nodes[pc].op = "call_function"
    /\ nodes[pc].target \notin INFERENCE_RULES
    /\ Visited(unregistered(init_type(type, pc), pc))

VisitUnregisteredModule ==
    /\ AtNode
    /\ nodes[pc].op = "call_module"
    /\ module_instance_of(pc).cls \notin INFERENCE_RULES
    /\ Visited(unregistered(init_type(type, pc), pc))

VisitOutput ==
    /\ AtNode
    /\ nodes[pc].op = "output"
    /\ Visited(output_node(init_type(type, pc), pc))

VisitOtherOp ==
    /\ AtNode
    /\ nodes[pc].op \notin {"placeholder", "call_function", "call_module", "output"}
    /\ Visited(not_implemented(init_type(type, pc), pc))

ReturnTrue ==
    /\ status = "running"
    /\ pc > Len(nodes)
    /\ status' = "returned"
    /\ UNCHANGED <<nodes, modules, type, pc, err, visited, pre, type0>>

Next ==
    \/ VisitPlaceholder
    \/ VisitAdd
    \/ VisitTranspose
    \/ VisitReshape
    \/ VisitBn2d
    \/ VisitConv2d
    \/ VisitRelu
    \/ VisitMaxpool2d
    \/ VisitLinear
    \/ VisitAdaptiveAvgPool2d
    \/ VisitUnregisteredFunction
    \/ VisitUnregisteredModule
    \/ VisitOutput
    \/ VisitOtherOp
    \/ ReturnTrue

(***************************************************************************)
(* Modules: the attributes the rules read.  An attribute that torch takes  *)
(* as an int or a pair is a sequence of one or of two elements.            *)
(***************************************************************************)
Module(cls) ==
    [cls |-> cls, kernel_size |-> <<1>>, stride |-> <<1>>, padding |-> <<0>>,
     dilation |-> <<1>>, in_channels |-> 0, out_channels |-> 0,
     num_features |-> 0, in_features |-> 0, out_features |-> 0,
     output_size |-> <<IntV(1)>>]

Conv2dModule(cin, cout, k, s, p, d) ==
    [Module("Conv2d") EXCEPT !.in_channels = cin, !.out_channels = cout,
        !.kernel_size = k, !.stride = s, !.padding = p, !.dilation = d]

MaxPool2dModule(k, s, p, d) ==
    [Module("MaxPool2d") EXCEPT !.kernel_size = k, !.stride = s, !.padding = p,
        !.dilation = d]

BatchNorm2dModule(nf) == [Module("BatchNorm2d") EXCEPT !.num_features = nf]

LinearModule(fin, fout) ==
    [Module("Linear") EXCEPT !.in_features = fin, !.out_features = fout]

AdaptiveAvgPool2dModule(os) ==
    [Module("AdaptiveAvgPool2d") EXCEPT !.output_size = os]

Node(op, target, args, lits) ==
    [op |-> op, target |-> target, args |-> args, lits |-> lits]

(***************************************************************************)
(* Bounds of the graphs and types the pass is run on.                      *)
(***************************************************************************)
MaxDim == 3

MaxReshape == 4

MaxHW == 3

Dims == {Dyn} \cup {IntV(d) : d \in 1..MaxDim}

(* Dyn and the tensor types of rank 1 and 2 *)
Types2 ==
    {Dyn} \cup {TensorType(<<d>>) : d \in Dims}
          \cup {TensorType(<<d, e>>) : d, e \in Dims}

(* the tensor types of rank 4 (N, C, H, W) with two or three channels *)
Types4 ==
    {TensorType(<<b, c, h, w>>) :
        b \in {Dyn, IntV(1)}, c \in {Dyn, IntV(2), IntV(3)},
        h \in {Dyn, IntV(2), IntV(MaxDim)}, w \in {Dyn, IntV(MaxDim)}}

(* the source types of a reshape: zero-sized dimensions included *)
ReshapeDims == {Dyn} \cup {IntV(d) : d \in 0..MaxReshape}

ReshapeSources ==
    {Dyn} \cup {TensorType(<<d>>) : d \in ReshapeDims}
          \cup {TensorType(<<d, e>>) : d, e \in ReshapeDims}
          \cup {TensorType(<<b, d, e>>) : b \in {Dyn, IntV(2)}, d, e \in ReshapeDims}

ReshapeElems == {Wildcard} \cup 0..(MaxReshape + 2)

ReshapeTargets == {<<d>> : d \in ReshapeElems} \cup {<<d, e>> : d, e \in ReshapeElems}

(* spatial sizes of a convolution input; 32 is the documented example *)
HWDims == {Dyn, IntV(32)} \cup {IntV(d) : d \in 1..MaxHW}

ConvInputs ==
    {TensorType(<<b, c, h, w>>) :
        b \in {Dyn, IntV(1)}, c \in {Dyn, IntV(2), IntV(3)}, h \in HWDims, w \in HWDims}

ConvModules ==
    {Conv2dModule(3, 16, k, s, pd[1], pd[2]) :
        k \in {<<3>>, <<2, 3>>}, s \in {<<1>>, <<1, 2>>, <<2, 1>>},
        pd \in {<< <<0>>, <<1>> >>, << <<0, 1>>, <<1, 2>> >>, << <<1>>, <<2>> >>}}

PoolTypes ==
    {TensorType(<<IntV(1), IntV(3), h, w>>) : h, w \in {Dyn, IntV(6), IntV(8)}}
    \cup {TensorType(<<IntV(3), h, IntV(8)>>) : h \in {Dyn, IntV(8)}}
    \cup {TensorType(<<IntV(8), IntV(8)>>)}

OutputSizes ==
    {<<IntV(2)>>, <<IntV(2), IntV(3)>>, <<IntV(2), None>>, <<None, IntV(3)>>,
     <<None, None>>}

ModuleNames == {"m1", "m2"}

Modules(m) == [t \in ModuleNames |-> m]

(* placeholder x; one operator node on x; output *)
Graph1(n) ==
    <<Node("placeholder", "x", <<>>, <<>>), n, Node("output", "output", <<2>>, <<>>)>>

(* placeholders x and y; one operator node; output *)
Graph2(n) ==
    <<Node("placeholder", "x", <<>>, <<>>), Node("placeholder", "y", <<>>, <<>>),
      n, Node("output", "output", <<3>>, <<>>)>>

ReluScenario ==
    /\ nodes = Graph1(Node("call_module", "m1", <<1>>, <<>>))
    /\ modules = Modules(Module("ReLU"))
    /\ \E A \in Types2 \cup {None}, T \in Types2 \cup {None} : type0 = <<A, T, None>>

Bn2dScenario ==
    /\ nodes = Graph1(Node("call_module", "m1", <<1>>, <<>>))
    /\ \E nf \in {2, 3} : modules = Modules(BatchNorm2dModule(nf))
    /\ \E A \in Types4 \cup {Dyn, TensorType(<<IntV(2), IntV(3)>>)},
          T \in Types4 \cup {Dyn, None, TensorType(<<IntV(2), IntV(3)>>)} :
          type0 = <<A, T, None>>

AddScenario ==
    /\ \E tg \in {"torch.add", "operator.add"}, args \in {<<1, 2>>, <<1, 1>>} :
          nodes = Graph2(Node("call_function", tg, args, <<>>))
    /\ modules = Modules(Module("ReLU"))
    /\ \E A, B \in Types2 \cup {IntClass,
                               TensorType(<<IntV(2), IntV(1), IntV(3)>>),
                               TensorType(<<IntV(3), IntV(4)>>),
                               TensorType(<<IntV(5), IntV(4)>>)},
          T \in {None, TensorType(<<IntV(2), IntV(3)>>)} :
          type0 = <<A, B, T, None>>

TransposeScenario ==
    /\ \E d1, d2 \in -1..2 :
          nodes = Graph1(Node("call_function", "torch.transpose", <<1>>, <<d1, d2>>))
    /\ modules = Modules(Module("ReLU"))
    /\ \E A \in Types2 \cup {IntClass}, T \in {None, Dyn} : type0 = <<A, T, None>>

ReshapeScenario ==
    /\ \E t2 \in ReshapeTargets :
          nodes = Graph1(Node("call_function", "torch.reshape", <<1>>, t2))
    /\ modules = Modules(Module("ReLU"))
    /\ \E A \in ReshapeSources : type0 = <<A, None, None>>

Conv2dScenario ==
    /\ nodes = Graph1(Node("call_module", "m1", <<1>>, <<>>))
    /\ \E m \in ConvModules : modules = Modules(m)
    /\ \E A \in ConvInputs \cup {Dyn, TensorType(<<IntV(3), IntV(4)>>)},
          T \in {None, Dyn, TensorType(<<Dyn, IntV(16), Dyn, IntV(2)>>)} :
          type0 = <<A, T, None>>

Maxpool2dScenario ==
    /\ nodes = Graph1(Node("call_module", "m1", <<1>>, <<>>))
    /\ \E s \in {<<2>>, <<1, 2>>} :
          modules = Modules(MaxPool2dModule(<<2>>, s, <<0>>, <<1>>))
    /\ \E A \in PoolTypes \cup {Dyn, None}, T \in PoolTypes \cup {Dyn, None} :
          type0 = <<A, T, None>>

LinearScenario ==
    /\ nodes = Graph1(Node("call_module", "m1", <<1>>, <<>>))
    /\ modules = Modules(LinearModule(MaxDim, 2))
    /\ \E A \in Types2 \cup {None}, T \in Types2 \cup {None} : type0 = <<A, T, None>>

AdaptiveAvgPool2dScenario ==
    /\ nodes = Graph1(Node("call_module", "m1", <<1>>, <<>>))
    /\ \E os \in OutputSizes : modules = Modules(AdaptiveAvgPool2dModule(os))
    /\ \E A \in PoolTypes \cup {Dyn, None}, T \in PoolTypes \cup {Dyn, None} :
          type0 = <<A, T, None>>

(* a node without a rule, or of an operator kind the checker does not know, *)
(* between two nodes that have rules                                        *)
NoRuleScenario ==
    /\ \E n \in {Node("call_function", "torch.mul", <<2>>, <<>>),
                 Node("call_module", "m2", <<2>>, <<>>),
                 Node("get_attr", "weight", <<>>, <<>>),
                 Node("call_method", "size", <<2>>, <<>>)} :
          nodes = <<Node("placeholder", "x", <<>>, <<>>),
                    Node("call_module", "m1", <<1>>, <<>>),
                    n,
                    Node("call_module", "m1", <<3>>, <<>>),
                    Node("output", "output", <<4>>, <<>>)>>
    /\ modules = [t \in ModuleNames |->
                    IF t = "m1" THEN Module("ReLU") ELSE Module("Dropout")]
    /\ \E A \in Types2 \cup {None}, T \in {None, Dyn, TensorType(<<IntV(2), Dyn>>)},
          U \in {None, Dyn, TensorType(<<Dyn, IntV(MaxDim)>>)} :
          type0 = <<A, T, U, U, None>>

(* x, y; bn(x); relu(bn); add(relu, y); output *)
ChainScenario ==
    /\ nodes = <<Node("placeholder", "x", <<>>, <<>>),
                 Node("placeholder", "y", <<>>, <<>>),
                 Node("call_module", "m1", <<1>>, <<>>),
                 Node("call_module", "m2", <<3>>, <<>>),
                 Node("call_function", "torch.add", <<4, 2>>, <<>>),
                 Node("output", "output", <<5>>, <<>>)>>
    /\ modules = [t \in ModuleNames |->
                    IF t = "m1" THEN BatchNorm2dModule(3) ELSE Module("ReLU")]
    /\ \E A \in {None, Dyn, TensorType(<<IntV(1), IntV(3), Dyn, IntV(MaxDim)>>),
                 TensorType(<<IntV(1), IntV(2), Dyn, Dyn>>)},
          B \in {None, TensorType(<<IntV(3), Dyn, IntV(MaxDim)>>),
                 TensorType(<<IntV(1), IntV(3), IntV(2), IntV(1)>>),
                 TensorType(<<IntV(2), IntV(3), IntV(2), IntV(MaxDim)>>)},
          T \in {None, TensorType(<<Dyn, Dyn, IntV(2), Dyn>>), TensorType(<<Dyn>>)},
          U \in {None, TensorType(<<Dyn, IntV(3), Dyn, Dyn>>),
                 TensorType(<<Dyn, Dyn, IntV(MaxDim), Dyn>>)},
          V \in {None, Dyn} :
          type0 = <<A, B, T, U, V, None>>

Init ==
    /\ \/ ReluScenario
       \/ Bn2dScenario
       \/ AddScenario
       \/ TransposeScenario
       \/ ReshapeScenario
       \/ Conv2dScenario
       \/ Maxpool2dScenario
       \/ LinearScenario
       \/ AdaptiveAvgPool2dScenario
       \/ NoRuleScenario
       \/ ChainScenario
    /\ type = type0
    /\ pre = type0
    /\ pc = 1
    /\ status = "running"
    /\ err = ""
    /\ visited = <<>>

Spec == Init /\ [][Next]_vars

(***************************************************************************)
(* Vocabulary of the properties.                                           *)
(***************************************************************************)
NodeIds == 1..Len(nodes)

HasVisited == Len(visited) > 0

(* the node whose visit was the last step of the loop *)
last == visited[Len(visited)]

(* that visit returned, it did not raise *)
LastReturned == HasVisited /\ (status # "raised")

LastIsFunction(targets) ==
    HasVisited /\ nodes[last].op = "call_function" /\ nodes[last].target \in targets

LastIsModule(cls) ==
    HasVisited /\ nodes[last].op = "call_module" /\ modules[nodes[last].target].cls = cls

(* the type of node n when the last visit began, an unset type read as Dyn *)
PreType(n) == IF pre[n] = None THEN Dyn ELSE pre[n]

NoRule(n) ==
    \/ nodes[n].op = "call_function" /\ nodes[n].target \notin INFERENCE_RULES
    \/ nodes[n].op = "call_module" /\ modules[nodes[n].target].cls \notin INFERENCE_RULES

UnknownKind(n) ==
    nodes[n].op \notin {"placeholder", "call_function", "call_module", "output"}

(* the parts of C1: the state invariant and the step property *)
C1_InOrder ==
    /\ Len(visited) <= Len(nodes)
    /\ \A i \in 1..Len(visited) : visited[i] = i
    /\ status = "running" => (pc = Len(visited) + 1 /\ ENABLED Next)
    /\ status = "returned" =>
          /\ Len(visited) = Len(nodes)
          /\ err = ""
          /\ \A n \in NodeIds : type[n] # None

C1_Progress == (Len(visited') = Len(visited) + 1) \/ (status' = "returned")

(***************************************************************************)
(* C1.  type_check visits the nodes one at a time in graph order, each     *)
(* exactly once; it terminates (while it runs a step is possible, and      *)
(* every step visits one more of the finitely many nodes or ends the       *)
(* pass); when it returns True every node has been visited and no node's   *)
(* type is left unset.                                                     *)
(***************************************************************************)
C1_VisitsAllInOrder == []C1_InOrder /\ [][C1_Progress]_vars

C1_Witness ==
    /\ status = "returned"
    /\ Len(nodes) >= 6
    /\ \E n \in NodeIds : type0[n] = None /\ type[n] # Dyn

(* the state part of C2 *)
C2_Aborted ==
    /\ (err # "") <=> (status = "raised")
    /\ status = "raised" =>
          /\ HasVisited
          /\ pc = last
          /\ ~ENABLED Next
          /\ \A j \in NodeIds : j > last => type[j] = type0[j]
          /\ \A j \in NodeIds : j <= last => type[j] # None

C3_UnregisteredRaises ==
    /\ \A i \in 1..Len(visited) :
          /\ NoRule(visited[i]) =>
                (i = Len(visited) /\ status = "raised" /\ err = "RuntimeError")
          /\ UnknownKind(visited[i]) =>
                (i = Len(visited) /\ status = "raised" /\ err = "NotImplementedError")
    /\ status = "returned" => \A n \in NodeIds : ~NoRule(n) /\ ~UnknownKind(n)

C3_Witness ==
    /\ HasVisited
    /\ NoRule(last)
    /\ nodes[last].op = "call_module"
    /\ last < Len(nodes)
    /\ status = "raised"

(***************************************************************************)
(* The operands of the node last visited, and its types before and after.  *)
(***************************************************************************)
arg0 == nodes[last].args[1]

arg1 == nodes[last].args[2]

IsType(t) == t = Dyn \/ IsTensorType(t)

(* r carries every dimension that is a known integer in t *)
KeepsKnownDims(r, t) ==
    \/ t = Dyn
    \/ /\ IsTensorType(t)
       /\ IsTensorType(r)
       /\ Len(r.a) = Len(t.a)
       /\ \A i \in 1..Len(t.a) : IsInt(t.a[i]) => r.a[i] = t.a[i]

StrictlyMorePrecise(t1, t2) == is_more_precise(t1, t2) /\ ~is_more_precise(t2, t1)

(***************************************************************************)
(* C4.  After the ReLU rule or the BatchNorm2d rule has run on a node      *)
(* whose prior type T and whose input's type A are consistent, the node's  *)
(* type carries every dimension that is a known integer in T or in A; if   *)
(* T and A are not consistent the rule fails.                              *)
(***************************************************************************)
C4_AtLeastAsPrecise ==
    (/\ LastIsModule("ReLU") \/ LastIsModule("BatchNorm2d")
     /\ IsType(pre[arg0])
     /\ IsType(PreType(last)))
    =>
    IF is_consistent(PreType(last), pre[arg0])
    THEN LastReturned =>
            /\ KeepsKnownDims(type[last], PreType(last))
            /\ KeepsKnownDims(type[last], pre[arg0])
    ELSE status = "raised"

(***************************************************************************)
(* C5.  When the add rule has run on operands whose types broadcast to a   *)
(* consistent pair (b1, b2), the types the operands now hold, and one of   *)
(* the two is more precise than the other, the add node's type is that     *)
(* more precise one.                                                       *)
(***************************************************************************)
C5_AddMorePrecise ==
    (/\ LastIsFunction({"torch.add", "operator.add"})
     /\ LastReturned
     /\ IsType(pre[arg0])
     /\ IsType(pre[arg1]))
    =>
    /\ StrictlyMorePrecise(type[arg0], type[arg1]) => type[last] = type[arg0]
    /\ StrictlyMorePrecise(type[arg1], type[arg0]) => type[last] = type[arg1]

(***************************************************************************)
(* C6.  When the MaxPool2d rule runs with the input's type and the node's  *)
(* type both tensor types, and the pooling formula applies to both, the    *)
(* two recomputed shapes must be consistent: if they are not the rule      *)
(* fails and the node keeps its type; if they are the node's type becomes  *)
(* the more precise of the two.                                            *)
(***************************************************************************)
C6_MaxpoolConsistent ==
    (/\ LastIsModule("MaxPool2d")
     /\ IsTensorType(pre[arg0])
     /\ IsTensorType(PreType(last))
     /\ maxpool2d_check(pre[arg0], modules[nodes[last].target]).ok
     /\ maxpool2d_check(PreType(last), modules[nodes[last].target]).ok)
    =>
    LET new_arg == maxpool2d_check(pre[arg0], modules[nodes[last].target]).val
        new_node == maxpool2d_check(PreType(last), modules[nodes[last].target]).val
    IN  IF is_consistent(new_arg, new_node)
        THEN /\ status # "raised"
             /\ type[last] \in {new_arg, new_node}
             /\ StrictlyMorePrecise(new_arg, new_node) => type[last] = new_arg
             /\ StrictlyMorePrecise(new_node, new_arg) => type[last] = new_node
        ELSE /\ status = "raised"
             /\ type[last] = PreType(last)

(* the output size as C7 states it, and the case C7 is about *)
pair_at(x, i) == IF Len(x) = 1 THEN x[1] ELSE x[i + 1]

ConvOut(d, m, i) ==
    IF d = Dyn THEN Dyn
    ELSE IntV(((d.v + 2 * pair_at(m.padding, i)
                    - pair_at(m.dilation, i) * (pair_at(m.kernel_size, i) - 1) - 1)
               \div pair_at(m.stride, 0)) + 1)

ConvCase ==
    /\ LastIsModule("Conv2d")
    /\ IsTensorType(pre[arg0])
    /\ Len(pre[arg0].a) = 4
    /\ is_consistent(pre[arg0].a[2], IntV(modules[nodes[last].target].in_channels))
    /\ PreType(last) = Dyn

(***************************************************************************)
(* C7.  The Conv2d rule on an input of rank-4 type (N, C, H, W) with C     *)
(* consistent with in_channels and a node whose type is dynamic sets the   *)
(* node's type to (N, out_channels, H_out, W_out): a spatial output is     *)
(* dynamic if the input size is, and otherwise                             *)
(* floor((d + 2*p[i] - dil[i]*(k[i]-1) - 1) / s[0]) + 1, with i = 0 for H  *)
(* and 1 for W, the stride taken at index 0 for both, and a scalar         *)
(* attribute read as an equal pair.  (1,3,32,32) with kernel 3, stride 1,  *)
(* padding 0, dilation 1 and 16 output channels gives (1,16,30,30).        *)
(***************************************************************************)
C7_ConvOutputShape ==
    /\ ConvCase =>
          LET m == modules[nodes[last].target]
              A == pre[arg0].a
          IN  /\ status # "raised"
              /\ type[last] = TensorType(<<A[1], IntV(m.out_channels),
                                           ConvOut(A[3], m, 0), ConvOut(A[4], m, 1)>>)
    /\ (/\ ConvCase
        /\ pre[arg0] = TensorType(<<IntV(1), IntV(3), IntV(32), IntV(32)>>)
        /\ modules[nodes[last].target] = Conv2dModule(3, 16, <<3>>, <<1>>, <<0>>, <<1>>))
       => type[last] = TensorType(<<IntV(1), IntV(16), IntV(30), IntV(30)>>)

(* a stride pair whose two values differ, on a known width *)
C7_Witness ==
    /\ ConvCase
    /\ modules[nodes[last].target].stride = <<1, 2>>
    /\ IsInt(pre[arg0].a[4])
    /\ pre[arg0].a[3] = Dyn
    /\ status # "raised"

(* the products and the success condition as C8 states them *)
RECURSIVE known_product(_, _)
known_product(s, skip) ==
    IF Len(s) = 0 THEN 1
    ELSE (IF s[1] = skip THEN 1 ELSE s[1]) * known_product(Tail(s), skip)

Abs(x) == IF x < 0 THEN 0 - x ELSE x

(* x divides y: y is a multiple of x *)
Divides(x, y) == \E q \in 0..Abs(y) : y = q * x

ReshapeClaimTarget(t2) ==
    TensorType([i \in 1..Len(t2) |-> IF t2[i] = -1 THEN Dyn ELSE IntV(t2[i])])

ReshapeShouldSucceed(src, t2) ==
    LET dyn == \E i \in 1..Len(src.a) : src.a[i] = Dyn
        wild == \E i \in 1..Len(t2) : t2[i] = -1
        ks == known_product([i \in 1..Len(src.a) |->
                                IF src.a[i] = Dyn THEN -1 ELSE src.a[i].v], -1)
        kt == known_product(t2, -1)
    IN  IF ~dyn /\ ~wild THEN ks = kt
        ELSE Divides(ks, kt) \/ Divides(kt, ks)

(***************************************************************************)
(* C8.  The reshape rule on a source tensor type and a target list         *)
(* succeeds exactly when (a) the source has no dynamic dimension, the      *)
(* target no wildcard, and the two products are equal, or (b) the source   *)
(* has a dynamic dimension or the target a wildcard, and the product of    *)
(* the known source dimensions divides, or is divided by, the product of   *)
(* the non-wildcard target dimensions.  Otherwise it fails with the        *)
(* reshape error (TypeError) and the node keeps its type.  On success, and *)
(* whenever the source type is dynamic, the node's type is the target with *)
(* every wildcard replaced by the dynamic dimension.                       *)
(***************************************************************************)
C8_Reshape ==
    LastIsFunction({"torch.reshape"}) =>
        IF pre[arg0] = Dyn
        THEN status # "raised" /\ type[last] = ReshapeClaimTarget(nodes[last].lits)
        ELSE IsTensorType(pre[arg0]) =>
             IF ReshapeShouldSucceed(pre[arg0], nodes[last].lits)
             THEN status # "raised" /\ type[last] = ReshapeClaimTarget(nodes[last].lits)
             ELSE status = "raised" /\ err = "TypeError" /\ type[last] = PreType(last)

(* the same statement for dimensions that are all positive *)
PositiveDims ==
    /\ \A i \in 1..Len(nodes[last].lits) : nodes[last].lits[i] # 0
    /\ IsTensorType(pre[arg0]) => \A i \in 1..Len(pre[arg0].a) : pre[arg0].a[i] # IntV(0)

ReshapePositive == (HasVisited /\ LastIsFunction({"torch.reshape"}) /\ PositiveDims) => C8_Reshape

(* the output size as C9 states it, and the case C9 is about *)
ClaimedOutputSize(os) ==
    IF Len(os) = 1 THEN <<os[1], os[1]>>
    ELSE IF os[1] = None THEN <<os[2], os[2]>>
    ELSE IF os[2] = None THEN <<os[1], os[1]>>
    ELSE os

(* the tensor type the shape computation is applied to, when only one side *)
(* is a tensor type or both are                                            *)
AdaptiveCase ==
    /\ LastIsModule("AdaptiveAvgPool2d")
    /\ IsTensorType(pre[arg0]) \/ IsTensorType(PreType(last))
    /\ (IsTensorType(pre[arg0]) /\ IsTensorType(PreType(last)))
          => is_consistent(pre[arg0], PreType(last))

(***************************************************************************)
(* C9.  The AdaptiveAvgPool2d shape computation on a tensor type of rank 3 *)
(* or 4 replaces the last two dimensions with the module's output size     *)
(* (height, width): a scalar is used for both, and in a pair with a        *)
(* missing (None) height or width the missing one takes the value of the   *)
(* other, so (h, None) gives (h, h) and (None, w) gives (w, w).  Any other *)
(* rank fails.                                                             *)
(***************************************************************************)
C9_AdaptiveOutputSize ==
    AdaptiveCase =>
        LET src == IF IsTensorType(pre[arg0]) THEN pre[arg0] ELSE PreType(last)
            os == ClaimedOutputSize(modules[nodes[last].target].output_size)
            r == Len(src.a)
        IN  IF r = 3 \/ r = 4
            THEN /\ status # "raised"
                 /\ IsTensorType(type[last])
                 /\ Len(type[last].a) = r
                 /\ type[last].a[r - 1] = os[1]
                 /\ type[last].a[r] = os[2]
                 /\ \A i \in 1..(r - 2) : IsInt(src.a[i]) => type[last].a[i] = src.a[i]
            ELSE status = "raised"

(* the case C10 is about: an add whose operands have the same tensor type *)
BroadcastSameCase ==
    /\ LastIsFunction({"torch.add", "operator.add"})
    /\ IsTensorType(pre[arg0])
    /\ Len(pre[arg0].a) >= 1
    /\ pre[arg1] = pre[arg0]

AddBroadcastCase ==
    /\ LastIsFunction({"torch.add", "operator.add"})
    /\ ~(pre[arg0] = IntClass /\ IsTensorType(pre[arg1]))
    /\ ~(pre[arg1] = IntClass /\ IsTensorType(pre[arg0]))

(* what broadcast_types makes of the types the operands had before the rule *)
AddBroadcast == broadcast_types(pre[arg0], pre[arg1])

(***************************************************************************)
(* C11.  When the add rule has run on operands whose types broadcast, the  *)
(* operands hold the broadcast results, whether or not the rule then       *)
(* raised; if the results are inconsistent the rule raised a TypeError,    *)
(* the add node has the type it had when the rule began, and the operands  *)
(* keep the broadcast results.  When the broadcast itself fails the rule   *)
(* raised and both operands have the types they had before.                *)
(***************************************************************************)
C11_AddOverwritesOperands ==
    AddBroadcastCase =>
        IF AddBroadcast.ok
        THEN /\ type[arg1] = AddBroadcast.t2
             /\ (arg0 # arg1) => (type[arg0] = AddBroadcast.t1)
             /\ ~is_consistent(AddBroadcast.t1, AddBroadcast.t2) =>
                   /\ status = "raised"
                   /\ err = "TypeError"
                   /\ type[last] = PreType(last)
        ELSE /\ status = "raised"
             /\ type[arg0] = pre[arg0]
             /\ type[arg1] = pre[arg1]

(* the rule raised on inconsistent results after it changed an operand *)
C11_Witness ==
    /\ AddBroadcastCase
    /\ AddBroadcast.ok
    /\ ~is_consistent(AddBroadcast.t1, AddBroadcast.t2)
    /\ status = "raised"
    /\ arg0 # arg1
    /\ type[arg0] # pre[arg0]
    /\ type[arg0] = AddBroadcast.t1
    /\ pre[last] # None

====
